---- MODULE Spec2Model ----
(***************************************************************************)
(* Model of scripts/generate_bare_brand.py: the multi-size ICO writer      *)
(* _write_multi_size_ico and the part of main that drives it.              *)
(*                                                                         *)
(* A byte string is a sequence of integers in 0..255.  An image is a       *)
(* record [width, height, pix]; pix stands for the pixel content, which    *)
(* the writer never inspects except through the PNG encoder.  A file       *)
(* system is a function from paths to byte strings, NoFile for a path      *)
(* that does not exist.                                                    *)
(***************************************************************************)
EXTENDS Integers, Sequences, FiniteSets, TLC

VARIABLES images, fs, result, icoLog, pc, theme, idx, fontOk, seed

vars == <<images, fs, result, icoLog, pc, theme, idx, fontOk, seed>>

(***************************************************************************)
(* Bounds of the model.                                                    *)
(***************************************************************************)
MaxImages == 2
MaxPix == 1
MaxCalls == 2
MaxSeed == 1

(***************************************************************************)
(* Program constants.                                                      *)
(***************************************************************************)
PNG_ICON_SIZES == <<256, 512, 768>>
FAVICON_ICO_SIZES == <<256, 128, 64, 32, 16>>
FAVICON_EXPORT_SIZES == <<512, 256, 128, 64, 32, 16>>
THEMES == <<"light", "dark">>

(***************************************************************************)
(* Paths.  A path is a record naming the kind of asset, the theme and a    *)
(* number (a pixel size or a scale index; 0 where the name has none).      *)
(***************************************************************************)
P(kind, th, n) == [kind |-> kind, theme |-> th, n |-> n]

PublicFaviconIco == P("public/favicon.ico", "", 0)
PublicFavicon32 == P("public/favicon-32.png", "", 0)
FaviconIco(th) == P("favicon.ico", th, 0)

IcoPaths == {FaviconIco(THEMES[t]) : t \in 1..2} \cup {PublicFaviconIco}

Paths ==
    IcoPaths
    \cup {PublicFavicon32}
    \cup {P(k, THEMES[t], 0) : k \in {"icon.svg", "wordmark.svg", "logo-lockup.svg"}, t \in 1..2}
    \cup {P(k, THEMES[t], i) : k \in {"icon.png", "logo-lockup.png"}, t \in 1..2, i \in 1..3}
    \cup {P("favicon.png", THEMES[t], FAVICON_EXPORT_SIZES[i]) : t \in 1..2, i \in 1..6}

NoFile == <<-1>>

(***************************************************************************)
(* int.to_bytes(n, "little"): raises OverflowError when the value does not *)
(* fit in n bytes.                                                         *)
(***************************************************************************)
Fits(v, n) == v >= 0 /\ (v \div (256 ^ (n - 1))) < 256

ToBytesBig(v, n) == [k \in 1..n |-> (v \div (256 ^ (n - k))) % 256]

ToBytes(v, n) == [k \in 1..n |-> (v \div (256 ^ (k - 1))) % 256]

(***************************************************************************)
(* img.save(buf, format="PNG"); buf.getvalue(): the encoder of the imaging *)
(* library.  Kept abstract: a signature, the two dimensions as in a PNG    *)
(* header (big-endian), then the pixel content.                            *)
(***************************************************************************)
PngSignature == <<137, 80, 78, 71>>

PngEncode(img) ==
    PngSignature \o ToBytesBig(img.width, 4) \o ToBytesBig(img.height, 4) \o img.pix

(***************************************************************************)
(* width_byte / height_byte: 0 represents 256.                             *)
(***************************************************************************)
DimByteNoWrap(d) == IF d < 256 THEN d ELSE 255

DimByte(d) == IF d < 256 THEN d ELSE 0

(***************************************************************************)
(* One directory entry, as the loop body appends it to entries.            *)
(***************************************************************************)
EntryOffsetFirst(img, data, offset) ==
    <<DimByte(img.width), DimByte(img.height), 0, 0>>
        \o ToBytes(1, 2) \o ToBytes(32, 2)
        \o ToBytes(offset, 4) \o ToBytes(Len(data), 4)

Entry(img, data, offset) ==
    <<DimByte(img.width), DimByte(img.height), 0, 0>>
        \o ToBytes(1, 2) \o ToBytes(32, 2)
        \o ToBytes(Len(data), 4) \o ToBytes(offset, 4)

(***************************************************************************)
(* The for loop over images: builds entries and data_blocks, advancing     *)
(* offset by the length of each payload.                                   *)
(***************************************************************************)
RECURSIVE EntryLoop(_, _, _, _, _)
EntryLoop(imgs, i, entries, offset, data_blocks) ==
    IF i > Len(imgs)
    THEN [status |-> "ok", entries |-> entries, data_blocks |-> data_blocks]
    ELSE LET img == imgs[i]
             data == PngEncode(img)
         IN  IF ~Fits(Len(data), 4) \/ ~Fits(offset, 4)
             THEN [status |-> "OverflowError", entries |-> entries,
                   data_blocks |-> data_blocks]
             ELSE EntryLoop(imgs, i + 1, entries \o Entry(img, data, offset),
                            offset + Len(data), Append(data_blocks, data))

RECURSIVE ConcatReversed(_)
ConcatReversed(blocks) ==
    IF blocks = <<>> THEN <<>> ELSE ConcatReversed(Tail(blocks)) \o Head(blocks)

RECURSIVE Concat(_)
Concat(blocks) ==
    IF blocks = <<>> THEN <<>> ELSE Head(blocks) \o Concat(Tail(blocks))

HeaderCountPlusOne(imgs) == ToBytes(0, 2) \o ToBytes(1, 2) \o ToBytes(Len(imgs) + 1, 2)

Header(imgs) == ToBytes(0, 2) \o ToBytes(1, 2) \o ToBytes(Len(imgs), 2)

FirstOffsetNoDirectory(imgs) == 6

FirstOffset(imgs) == 6 + 16 * Len(imgs)

(***************************************************************************)
(* The value of blob at the write, or the exception raised before it.      *)
(***************************************************************************)
Pack(imgs) ==
    IF ~Fits(Len(imgs), 2)
    THEN [status |-> "OverflowError", blob |-> <<>>]
    ELSE LET loop == EntryLoop(imgs, 1, <<>>, FirstOffset(imgs), <<>>)
         IN  IF loop.status # "ok"
             THEN [status |-> loop.status, blob |-> <<>>]
             ELSE [status |-> "ok",
                   blob |-> Header(imgs) \o loop.entries \o Concat(loop.data_blocks)]

(***************************************************************************)
(* path.write_bytes(blob): creates or truncates the file.                  *)
(***************************************************************************)
WriteBytesAppend(f, path, blob) ==
    [f EXCEPT ![path] = IF f[path] = NoFile THEN blob ELSE f[path] \o blob]

WriteBytesEveryIco(f, path, blob) ==
    [p \in DOMAIN f |-> IF p \in IcoPaths THEN blob ELSE f[p]]

WriteBytes(f, path, blob) == [f EXCEPT ![path] = blob]

(***************************************************************************)
(* _write_multi_size_ico(path, images): the exception it ends with ("ok"   *)
(* for a normal return), whether path.write_bytes was reached, and the     *)
(* file system it leaves.                                                  *)
(***************************************************************************)
RunIcoRejectEmpty(f, path, imgs) ==
    LET r == Pack(imgs)
    IN  IF imgs = <<>>
        THEN [status |-> "EmptyInputError", wrote |-> FALSE, fs |-> f]
        ELSE IF r.status = "ok"
        THEN [status |-> "ok", wrote |-> TRUE, fs |-> WriteBytes(f, path, r.blob)]
        ELSE [status |-> r.status, wrote |-> FALSE, fs |-> f]

RunIco(f, path, imgs) ==
    LET r == Pack(imgs)
    IN  IF r.status = "ok"
        THEN [status |-> "ok", wrote |-> TRUE, fs |-> WriteBytes(f, path, r.blob)]
        ELSE [status |-> r.status, wrote |-> FALSE, fs |-> f]

(***************************************************************************)
(* One call of the writer as a step of the system.  icoLog records, for    *)
(* each call, its arguments, how it ended and the content of the           *)
(* destination after it.                                                   *)
(***************************************************************************)
LogEntry(path, imgs, run) ==
    [path |-> path, images |-> imgs, status |-> run.status, wrote |-> run.wrote,
     out |-> run.fs[path]]

WriteMultiSizeIco(path, imgs) ==
    LET run == RunIco(fs, path, imgs)
    IN  /\ fs' = run.fs
        /\ result' = run.status
        /\ icoLog' = Append(icoLog, LogEntry(path, imgs, run))

(***************************************************************************)
(* Callers of the writer with arbitrary image lists: the lists the         *)
(* signature images: list[Image.Image] admits, empty list, non-square and  *)
(* oversized images included.                                              *)
(***************************************************************************)
Dims == {<<16, 16>>, <<255, 255>>, <<256, 256>>, <<300, 300>>, <<16, 32>>}

PixSet == {[k \in 1..n |-> 171] : n \in 0..MaxPix}

ImageSet == {[width |-> d[1], height |-> d[2], pix |-> px] : d \in Dims, px \in PixSet}

ImageLists == UNION {[1..n -> ImageSet] : n \in 0..MaxImages}

NoSeed == [k \in {"light", "dark", "letter"} |-> 0]

Init ==
    /\ images \in ImageLists
    /\ fs = [p \in Paths |-> NoFile]
    /\ result = "none"
    /\ icoLog = <<>>
    /\ pc = "caller"
    /\ theme = 1
    /\ idx = 1
    /\ fontOk = TRUE
    /\ seed = NoSeed

CallWriteIco(path) ==
    /\ pc = "caller"
    /\ Len(icoLog) < MaxCalls
    /\ WriteMultiSizeIco(path, images)
    /\ UNCHANGED <<images, pc, theme, idx, fontOk, seed>>

\* the destinations the callers of this specification pass
Destinations == {FaviconIco("light"), PublicFaviconIco}

Next == \E path \in Destinations : CallWriteIco(path)

Spec == Init /\ [][Next]_vars

(***************************************************************************)
(* The rendering collaborators.  What they draw depends on the imaging     *)
(* library and on the font file; seed stands for that outcome, fixed for   *)
(* a run, so that drawing the same icon twice gives the same image.        *)
(***************************************************************************)
Kinds == {"light", "dark", "letter"}

FillByte(kind) == IF kind = "light" THEN 0 ELSE IF kind = "dark" THEN 255 ELSE 113

RenderPix(kind, size) ==
    [k \in 1..((seed[kind] + size \div 16) % (MaxPix + 1)) |-> FillByte(kind)]

\* round(a / b) of Python for positive operands: ties go to the even neighbour
Round(a, b) ==
    LET q == a \div b
        r == a % b
    IN  IF 2 * r < b THEN q
        ELSE IF 2 * r > b THEN q + 1
        ELSE IF q % 2 = 0 THEN q ELSE q + 1

ICON_BASE == 64
RECT_W == 22

scale(value, target_size) == Round(value * target_size, ICON_BASE)

\* Image.new("RGBA", (size, size), ...) with the four rectangles drawn
draw_icon(size, kind) == [width |-> size, height |-> size, pix |-> RenderPix(kind, size)]

\* Image.new("RGBA", (size, size), ...) with the letter drawn
draw_letter_icon(size) ==
    [width |-> size, height |-> size, pix |-> RenderPix("letter", size)]

\* text_w of measure_text: the width the font gives the word at that size
TextWidth(font_size) == 2 * font_size

draw_lockup(icon_size, kind) ==
    LET gap == scale(RECT_W, icon_size)
        font_size == Round(icon_size * 62, 100)
        pad == Round(icon_size, 10)
    IN  [width |-> icon_size + gap + TextWidth(font_size) + pad * 2,
         height |-> icon_size, pix |-> RenderPix(kind, icon_size)]

\* the text of an SVG file, kept abstract
SvgText == <<60, 115, 118, 103>>

\* seq[i] of Python, indices counted from 0
AtCountedFromOne(seq, i) == seq[i]

At(seq, i) == seq[i + 1]

(***************************************************************************)
(* main: mkdir, save_svgs, save_pngs, save_favicons, save_public_favicon,  *)
(* print.  The loops over themes and sizes advance one iteration a step.   *)
(***************************************************************************)
StaleFile == <<9, 9>>

MainInit ==
    /\ images = <<>>
    /\ \E stale \in BOOLEAN : fs = [p \in Paths |-> IF stale THEN StaleFile ELSE NoFile]
    /\ result = "none"
    /\ icoLog = <<>>
    /\ pc = "mkdir"
    /\ theme = 1
    /\ idx = 1
    /\ fontOk \in BOOLEAN
    /\ seed \in [Kinds -> 0..MaxSeed]

Mkdir ==
    /\ pc = "mkdir"
    /\ pc' = "save_svgs"
    /\ UNCHANGED <<images, fs, result, icoLog, theme, idx, fontOk, seed>>

\* one iteration of the loop of save_svgs; load_font raises when the font
\* file cannot be read, after icon-{theme}.svg was written
SaveSvgs ==
    /\ pc = "save_svgs"
    /\ LET th == THEMES[theme]
           icon == WriteBytes(fs, P("icon.svg", th, 0), SvgText)
           wordmark == WriteBytes(icon, P("wordmark.svg", th, 0), SvgText)
           lockup == WriteBytes(wordmark, P("logo-lockup.svg", th, 0), SvgText)
       IN  IF fontOk
           THEN /\ fs' = lockup
                /\ result' = result
                /\ IF theme < Len(THEMES)
                   THEN theme' = theme + 1 /\ pc' = pc
                   ELSE theme' = 1 /\ pc' = "save_pngs"
           ELSE /\ fs' = icon
                /\ result' = "OSError"
                /\ theme' = theme
                /\ pc' = "raised"
    /\ UNCHANGED <<images, icoLog, idx, fontOk, seed>>

\* one iteration of the inner loop of save_pngs
SavePngs ==
    /\ pc = "save_pngs"
    /\ LET th == THEMES[theme]
           size == PNG_ICON_SIZES[idx]
           icon == WriteBytes(fs, P("icon.png", th, idx), PngEncode(draw_icon(size, th)))
       IN  fs' = WriteBytes(icon, P("logo-lockup.png", th, idx),
                            PngEncode(draw_lockup(size, th)))
    /\ IF idx < Len(PNG_ICON_SIZES)
       THEN idx' = idx + 1 /\ theme' = theme /\ pc' = pc
       ELSE /\ idx' = 1
            /\ IF theme < Len(THEMES)
               THEN theme' = theme + 1 /\ pc' = pc
               ELSE theme' = 1 /\ pc' = "save_favicons"
    /\ UNCHANGED <<images, result, icoLog, fontOk, seed>>

\* save_favicons, one theme: the ICO of that theme
SaveFaviconsIco ==
    /\ pc = "save_favicons"
    /\ LET th == THEMES[theme]
           ico_images == [i \in 1..Len(FAVICON_ICO_SIZES) |->
                              draw_icon(FAVICON_ICO_SIZES[i], th)]
       IN  /\ images' = ico_images
           /\ WriteMultiSizeIco(FaviconIco(th), ico_images)
           /\ pc' = IF RunIco(fs, FaviconIco(th), ico_images).status = "ok"
                    THEN "favicon_export" ELSE "raised"
    /\ idx' = 1
    /\ UNCHANGED <<theme, fontOk, seed>>

\* save_favicons, one theme: one iteration of the loop over the export sizes
SaveFaviconExport ==
    /\ pc = "favicon_export"
    /\ LET th == THEMES[theme]
           size == FAVICON_EXPORT_SIZES[idx]
       IN  fs' = WriteBytes(fs, P("favicon.png", th, size), PngEncode(draw_icon(size, th)))
    /\ IF idx < Len(FAVICON_EXPORT_SIZES)
       THEN idx' = idx + 1 /\ theme' = theme /\ pc' = pc
       ELSE /\ idx' = 1
            /\ IF theme < Len(THEMES)
               THEN theme' = theme + 1 /\ pc' = "save_favicons"
               ELSE theme' = 1 /\ pc' = "save_public_favicon"
    /\ UNCHANGED <<images, result, icoLog, fontOk, seed>>

SavePublicFavicon ==
    /\ pc = "save_public_favicon"
    /\ LET icons == [i \in 1..Len(FAVICON_ICO_SIZES) |->
                         draw_letter_icon(FAVICON_ICO_SIZES[i])]
           run == RunIco(fs, PublicFaviconIco, icons)
       IN  /\ images' = icons
           /\ result' = run.status
           /\ icoLog' = Append(icoLog, LogEntry(PublicFaviconIco, icons, run))
           /\ IF run.status = "ok"
              THEN /\ fs' = WriteBytes(run.fs, PublicFavicon32, PngEncode(At(icons, 3)))
                   /\ pc' = "print"
              ELSE /\ fs' = run.fs
                   /\ pc' = "raised"
    /\ UNCHANGED <<theme, idx, fontOk, seed>>

PrintDone ==
    /\ pc = "print"
    /\ pc' = "done"
    /\ UNCHANGED <<images, fs, result, icoLog, theme, idx, fontOk, seed>>

MainNext ==
    \/ Mkdir
    \/ SaveSvgs
    \/ SavePngs
    \/ SaveFaviconsIco
    \/ SaveFaviconExport
    \/ SavePublicFavicon
    \/ PrintDone

MainSpec == MainInit /\ [][MainNext]_vars

(***************************************************************************)
(* A reader of the container: the fields of the header and of directory    *)
(* entry i (counted from 0) of a byte string b.                            *)
(***************************************************************************)
Byte(b, pos) == b[pos + 1]

ReadLE2(b, pos) == Byte(b, pos) + 256 * Byte(b, pos + 1)

ReadLE4(b, pos) ==
    Byte(b, pos) + 256 * Byte(b, pos + 1) + 65536 * Byte(b, pos + 2)
        + 16777216 * Byte(b, pos + 3)

LE2(v) == <<v % 256, v \div 256>>

LE4(v) == <<v % 256, (v \div 256) % 256, (v \div 65536) % 256, v \div 16777216>>

Slice(b, from, to) == SubSeq(b, from + 1, to)

WidthByte(b, i) == Byte(b, 6 + 16 * i)
HeightByte(b, i) == Byte(b, 7 + 16 * i)
PayloadSize(b, i) == ReadLE4(b, 14 + 16 * i)
PayloadOffset(b, i) == ReadLE4(b, 18 + 16 * i)

DecodeDim(byte) == IF byte = 0 THEN 256 ELSE byte

Payload(img) == PngEncode(img)

RECURSIVE PayloadBytes(_, _)
PayloadBytes(imgs, n) ==
    IF n = 0 THEN 0 ELSE PayloadBytes(imgs, n - 1) + Len(Payload(imgs[n]))

ValidImage(img) == img.width = img.height /\ img.width \in 1..256

ValidList(imgs) == Len(imgs) >= 1 /\ \A i \in 1..Len(imgs) : ValidImage(imgs[i])

Calls == {icoLog[k] : k \in 1..Len(icoLog)}

\* C1: for every list of N >= 1 images the output is the 6-byte header
\* (reserved 0, type 1, count N, little-endian), N 16-byte directory entries
\* and the N payloads in input order; its length is 6 + 16*N + the payload
\* lengths.
C1_HeaderDirectoryPayloads ==
    \A c \in Calls :
        Len(c.images) >= 1 =>
            LET N == Len(c.images)
                b == c.out
            IN  /\ c.status = "ok" /\ c.wrote
                /\ Len(b) = 6 + 16 * N + PayloadBytes(c.images, N)
                /\ ReadLE2(b, 0) = 0
                /\ ReadLE2(b, 2) = 1
                /\ ReadLE2(b, 4) = N
                /\ \A i \in 1..N :
                       LET start == 6 + 16 * N + PayloadBytes(c.images, i - 1)
                       IN  Slice(b, start, start + Len(Payload(c.images[i])))
                               = Payload(c.images[i])

C1_Witness ==
    \E c \in Calls :
        /\ Len(c.images) = 2
        /\ Payload(c.images[1]) # Payload(c.images[2])
        /\ c.wrote

\* C2: PayloadOffset[0] = 6 + 16*N, PayloadOffset[i+1] = PayloadOffset[i] +
\* PayloadSize[i] with PayloadSize[i] the length of payload i; offsets never
\* decrease; a single-image list has PayloadOffset[0] = 22.
C2_OffsetsAccumulate ==
    \A c \in Calls :
        Len(c.images) >= 1 =>
            LET N == Len(c.images)
                b == c.out
            IN  /\ c.wrote
                /\ PayloadOffset(b, 0) = 6 + 16 * N
                /\ N = 1 => PayloadOffset(b, 0) = 22
                /\ \A i \in 0..(N - 2) :
                       /\ PayloadOffset(b, i + 1)
                              = PayloadOffset(b, i) + Len(Payload(c.images[i + 1]))
                       /\ PayloadOffset(b, i + 1) >= PayloadOffset(b, i)

C2_Witness ==
    \E c \in Calls :
        /\ Len(c.images) = 2 /\ c.wrote
        /\ PayloadOffset(c.out, 0) = 38
        /\ PayloadOffset(c.out, 1) = 38 + 12 + MaxPix

\* C3 as stated: a call with an empty list fails with EmptyInputError and
\* writes nothing.
C3_EmptyRaises ==
    \A c \in Calls :
        c.images = <<>> => c.status = "EmptyInputError" /\ ~c.wrote

\* C3 amended: a call with an empty list raises nothing and writes the bare
\* 6-byte header with count 0 to the destination.
C3_EmptyWritesHeader ==
    \A c \in Calls :
        c.images = <<>> =>
            /\ c.status = "ok"
            /\ c.wrote
            /\ c.out = <<0, 0, 1, 0, 0, 0>>
            /\ Len(icoLog) > 0 /\ c = icoLog[Len(icoLog)] => fs[c.path] = c.out

C3_Witness == \E c \in Calls : c.images = <<>> /\ fs[c.path] = <<0, 0, 1, 0, 0, 0>>

\* C4 as stated: a call with a list holding a non-square image or one wider
\* or higher than 256 fails with InvalidImageError before anything is
\* written.
C4_InvalidRaises ==
    \A c \in Calls :
        (\E i \in 1..Len(c.images) :
             \/ c.images[i].width # c.images[i].height
             \/ c.images[i].width > 256
             \/ c.images[i].height > 256)
            => c.status = "InvalidImageError" /\ ~c.wrote

\* C5: the width and height bytes of every entry hold d for d in 1..255 and
\* 0 for d = 256, and the encoding is injective on 1..256.
C5_DimensionBytes ==
    /\ \A c \in Calls :
           c.wrote =>
               \A i \in 1..Len(c.images) :
                   LET img == c.images[i]
                   IN  /\ img.width \in 1..255 => WidthByte(c.out, i - 1) = img.width
                       /\ img.width = 256 => WidthByte(c.out, i - 1) = 0
                       /\ img.height \in 1..255 => HeightByte(c.out, i - 1) = img.height
                       /\ img.height = 256 => HeightByte(c.out, i - 1) = 0
    /\ \A c \in Calls :
           c.wrote =>
               \A i, j \in 1..Len(c.images) :
                   /\ c.images[i].width \in 1..256
                   /\ c.images[j].width \in 1..256
                   /\ WidthByte(c.out, i - 1) = WidthByte(c.out, j - 1)
                   => c.images[i].width = c.images[j].width
    /\ Len(icoLog) = 1 => Cardinality({DimByte(d) : d \in 1..256}) = 256

C5_Witness ==
    \E c \in Calls :
        /\ Len(c.images) = 2
        /\ c.images[1].width = 255 /\ c.images[1].height = 255
        /\ c.images[2].width = 256 /\ c.images[2].height = 256
        /\ WidthByte(c.out, 0) = 255 /\ WidthByte(c.out, 1) = 0

\* C6: entry i occupies bytes 6+16*i .. 21+16*i and is: width byte, height
\* byte, 0, 0, planes 1 (2 bytes), bit depth 32 (2 bytes), payload length (4
\* bytes), payload offset (4 bytes), little-endian; the length field is the
\* byte length of payload i.
C6_EntryLayout ==
    \A c \in Calls :
        c.wrote =>
            \A i \in 0..(Len(c.images) - 1) :
                LET b == c.out
                    N == Len(c.images)
                    e == Slice(b, 6 + 16 * i, 22 + 16 * i)
                IN  /\ Len(e) = 16
                    /\ e[1] \in 0..255 /\ e[2] \in 0..255
                    /\ ValidImage(c.images[i + 1]) =>
                           /\ DecodeDim(e[1]) = c.images[i + 1].width
                           /\ DecodeDim(e[2]) = c.images[i + 1].height
                    /\ e[3] = 0 /\ e[4] = 0
                    /\ SubSeq(e, 5, 6) = LE2(1)
                    /\ SubSeq(e, 7, 8) = LE2(32)
                    /\ SubSeq(e, 9, 12) = LE4(Len(Payload(c.images[i + 1])))
                    /\ SubSeq(e, 13, 16) = LE4(6 + 16 * N + PayloadBytes(c.images, i))
                    /\ PayloadSize(b, i) = Len(Payload(c.images[i + 1]))

C6_Witness ==
    \E c \in Calls :
        /\ Len(c.images) = 2 /\ c.wrote
        /\ Len(Payload(c.images[1])) # PayloadOffset(c.out, 0)
        /\ Len(Payload(c.images[2])) # Len(Payload(c.images[1]))

\* C7: for every valid list, a reader that takes the count from the header
\* and the slice [PayloadOffset[i], PayloadOffset[i] + PayloadSize[i]) of
\* each entry recovers payload i; the slices are contiguous, lie inside the
\* output after the directory, the last one ends the output; the width and
\* height bytes (0 meaning 256) give back the dimensions of image i.
C7_RoundTrip ==
    \A c \in Calls :
        ValidList(c.images) =>
            LET b == c.out
                N == ReadLE2(b, 4)
            IN  /\ c.wrote
                /\ N = Len(c.images)
                /\ PayloadOffset(b, 0) = 6 + 16 * N
                /\ PayloadOffset(b, N - 1) + PayloadSize(b, N - 1) = Len(b)
                /\ \A i \in 0..(N - 1) :
                       /\ PayloadOffset(b, i) + PayloadSize(b, i) <= Len(b)
                       /\ Slice(b, PayloadOffset(b, i), PayloadOffset(b, i) + PayloadSize(b, i))
                              = Payload(c.images[i + 1])
                       /\ DecodeDim(WidthByte(b, i)) = c.images[i + 1].width
                       /\ DecodeDim(HeightByte(b, i)) = c.images[i + 1].height
                /\ \A i \in 0..(N - 2) :
                       PayloadOffset(b, i + 1) = PayloadOffset(b, i) + PayloadSize(b, i)

C7_Witness ==
    \E c \in Calls :
        /\ ValidList(c.images) /\ Len(c.images) = 2 /\ c.wrote
        /\ c.images[1].width = 256 /\ c.images[2].width = 16
        /\ Len(c.images[1].pix) # Len(c.images[2].pix)

\* C8 as stated: the writer accesses no file: no step changes the file
\* system.
C8_NoFileAccess == [][fs' = fs]_vars

\* C8 amended: a call of the writer changes no file other than its
\* destination, which it sets to the packed bytes, and leaves the input
\* images and their order unchanged.
C8_OnlyDestinationWritten ==
    [][Len(icoLog') = Len(icoLog) + 1 =>
           LET c == icoLog'[Len(icoLog')]
           IN  /\ \A p \in Paths : p # c.path => fs'[p] = fs[p]
               /\ fs'[c.path] = c.out
               /\ images' = images
               /\ c.images = images]_vars

C8_Witness ==
    \E p, q \in Destinations :
        /\ p # q
        /\ fs[p] # NoFile /\ fs[q] = NoFile
        /\ Len(icoLog) = 1 /\ icoLog[1].path = p /\ Len(icoLog[1].images) >= 1

\* C9: two calls with the same ordered image list produce byte-identical
\* output, whatever was called or written before.
C9_SameListSameBytes ==
    \A c, d \in Calls :
        c.images = d.images => (c.status = d.status /\ c.out = d.out)

C9_Witness ==
    /\ Len(icoLog) >= 2
    /\ icoLog[1].path = icoLog[2].path
    /\ icoLog[1].wrote /\ icoLog[2].wrote
    /\ Len(icoLog[1].images) >= 1
    /\ icoLog[1].images = icoLog[2].images

ReadBE4(b, pos) ==
    16777216 * Byte(b, pos) + 65536 * Byte(b, pos + 1) + 256 * Byte(b, pos + 2)
        + Byte(b, pos + 3)

\* the dimensions a PNG file announces after its signature
PngWidth(b) == ReadBE4(b, Len(PngSignature))
PngHeight(b) == ReadBE4(b, Len(PngSignature) + 4)

\* C10: in a full run of main the writer is called exactly three times, for
\* favicon-light.ico, favicon-dark.ico and the public favicon.ico, each time
\* with 5 square images of sides 256, 128, 64, 32, 16 in that order; so each
\* call meets the precondition, each ICO has count 5, first payload offset
\* 86 and width/height bytes 0, 128, 64, 32, 16, and favicon-32.png is the
\* 32-pixel image of the list.
C10_MainCallsWriter ==
    /\ Len(icoLog) <= 3
    /\ \A c \in Calls :
           /\ Len(c.images) = 5
           /\ \A i \in 1..5 :
                  /\ c.images[i].width = <<256, 128, 64, 32, 16>>[i]
                  /\ c.images[i].height = <<256, 128, 64, 32, 16>>[i]
                  /\ WidthByte(c.out, i - 1) = <<0, 128, 64, 32, 16>>[i]
                  /\ HeightByte(c.out, i - 1) = <<0, 128, 64, 32, 16>>[i]
           /\ ValidList(c.images)
           /\ c.status = "ok" /\ c.wrote
           /\ ReadLE2(c.out, 4) = 5
           /\ PayloadOffset(c.out, 0) = 86
    /\ pc = "done" =>
           /\ Len(icoLog) = 3
           /\ icoLog[1].path = FaviconIco("light")
           /\ icoLog[2].path = FaviconIco("dark")
           /\ icoLog[3].path = PublicFaviconIco
           /\ \A k \in 1..3 : fs[icoLog[k].path] = icoLog[k].out
           /\ fs[PublicFavicon32] = Payload(icoLog[3].images[4])
           /\ PngWidth(fs[PublicFavicon32]) = 32
           /\ PngHeight(fs[PublicFavicon32]) = 32

C10_Witness ==
    /\ pc = "done"
    /\ Len(icoLog) = 3
    /\ fs[PublicFaviconIco] # NoFile
    /\ fs[PublicFavicon32] # NoFile

====
